---- MODULE Spec2Model ----
(***************************************************************************)
(* A model of anatools.py: the MM-PBSA report converter (mmpbsa_to_csv),   *)
(* its reader (load_bfedat), the pickle loaders (load_pickle,              *)
(* load_pickles) and the series aggregator (load_ana and its presets).     *)
(*                                                                         *)
(* Text is modelled character by character: a Python str is a sequence of  *)
(* one-character strings, positions are 1-based, and a half-open Python    *)
(* slice t[a:b] is SubSeq(t, a+1, b).  The alphabet is ASCII.              *)
(***************************************************************************)
EXTENDS Integers, Sequences, FiniteSets, TLC

VARIABLES
  fs,          \* the file system: path -> directory or file with its content
  call,        \* the most recent call: the function and its arguments
  ret,         \* how that call ended: a returned value or a raised exception
  sections,    \* mmpbsa_to_csv: one entry per iteration of the finditer loop
  parsed_data, \* mmpbsa_to_csv: its list parsed_data when it returned
  opened,      \* the open() calls of the most recent call, in order
  dfconf,      \* the caller's configuration table (its PATH column)
  dfpickels    \* the caller's list of loaded bundles (load_pickles' result)

vars == <<fs, call, ret, sections, parsed_data, opened, dfconf, dfpickels>>

-----------------------------------------------------------------------------
(* Characters and the str methods the converter uses.                      *)

UpperCase == <<"A","B","C","D","E","F","G","H","I","J","K","L","M",
               "N","O","P","Q","R","S","T","U","V","W","X","Y","Z">>

LowerCase == <<"a","b","c","d","e","f","g","h","i","j","k","l","m",
               "n","o","p","q","r","s","t","u","v","w","x","y","z">>

Digits == <<"0","1","2","3","4","5","6","7","8","9">>

\* The case folding re.IGNORECASE applies to an ASCII character.
Lower(c) ==
  IF \E i \in 1..26 : UpperCase[i] = c
    THEN LowerCase[CHOOSE i \in 1..26 : UpperCase[i] = c]
    ELSE c

\* str.isspace / the regex class \s, on the model's alphabet.
IsSpace(c) == c \in {" ", "\n", "\t", "\r"}

IsDigit(c) == \E i \in 1..10 : Digits[i] = c

DigitVal(c) == (CHOOSE i \in 1..10 : Digits[i] = c) - 1

\* t[a:b] of Python for 1-based a and exclusive 1-based end b.
Slice(t, a, b) == SubSeq(t, a, b - 1)

\* With(v, F) is F(v).  It gives the value v a name the model checker
\* evaluates once, however often F uses it.
With(v, F(_)) == CHOOSE r \in {F(x) : x \in {v}} : TRUE

Min(S) == With(S, LAMBDA T : CHOOSE x \in T : \A y \in T : x <= y)

Max(S) == With(S, LAMBDA T : CHOOSE x \in T : \A y \in T : y <= x)

\* The first index >= i that holds no whitespace, or Len(s) + 1.
LStripFrom(s, i) ==
  Min({k \in i..Len(s) : ~IsSpace(s[k])} \cup {Len(s) + 1})

\* The last index <= j that holds no whitespace, or 0.
RStripFrom(s, j) ==
  Max({k \in 1..j : ~IsSpace(s[k])} \cup {0})

\* str.strip()
Strip(s) == SubSeq(s, LStripFrom(s, 1), RStripFrom(s, Len(s)))

\* The first index >= i holding character c, or Len(s) + 1.
IndexOf(s, c, i) ==
  Min({k \in i..Len(s) : s[k] = c} \cup {Len(s) + 1})

\* str.split(sep) for a one-character separator: never empty, keeps empty parts.
RECURSIVE SplitFrom(_, _, _)
SplitFrom(s, sep, i) ==
  With(IndexOf(s, sep, i), LAMBDA k :
    IF k > Len(s) THEN <<SubSeq(s, i, Len(s))>>
    ELSE <<Slice(s, i, k)>> \o SplitFrom(s, sep, k + 1))

SplitOn(s, sep) == SplitFrom(s, sep, 1)

\* The first index >= i holding whitespace, or Len(s) + 1.
TokenEnd(s, i) ==
  Min({k \in i..Len(s) : IsSpace(s[k])} \cup {Len(s) + 1})

\* str.split(): the maximal runs of non-whitespace, in order.
RECURSIVE SplitWs(_, _)
SplitWs(s, i) ==
  With(LStripFrom(s, i), LAMBDA a :
    IF a > Len(s) THEN <<>>
    ELSE With(TokenEnd(s, a), LAMBDA b : <<Slice(s, a, b)>> \o SplitWs(s, b)))

\* str.startswith(prefix)
StartsWith(s, prefix) ==
  /\ Len(prefix) <= Len(s)
  /\ \A k \in 1..Len(prefix) : s[k] = prefix[k]

\* `sub in s`
Contains(s, sub) ==
  \E a \in 1..(Len(s) - Len(sub) + 1) :
    \A k \in 1..Len(sub) : s[a + k - 1] = sub[k]

-----------------------------------------------------------------------------
(* data_pattern: the match Python's backtracking engine returns for        *)
(*   (\n|^)(Complex|Receptor|Ligand|Delta|\S+ Delta)[\s\S]*?               *)
(*   (?:[-]{60,}\s*?)([\s\S]*?)(?=\n[-]{60,}|\Z)     MULTILINE|IGNORECASE  *)

RuleMin == 60

systems == << <<"C","o","m","p","l","e","x">>,
              <<"R","e","c","e","p","t","o","r">>,
              <<"L","i","g","a","n","d">>,
              <<"D","e","l","t","a">> >>

SpaceDelta == <<" ","D","e","l","t","a">>

\* The literal lit matches at index i, ignoring case.
MatchesAt(t, i, lit) ==
  /\ i + Len(lit) - 1 <= Len(t)
  /\ \A k \in 1..Len(lit) : Lower(t[i + k - 1]) = Lower(lit[k])

\* [-]{60,} can match at index r.
HasRunAt(t, r) ==
  /\ r + RuleMin - 1 <= Len(t)
  /\ \A k \in r..(r + RuleMin - 1) : t[k] = "-"

\* Group 2 at index i: the index just after the label, 0 when none matches.
\* The alternatives are tried in order; what follows the label can match
\* after a longer alternative only if it can after a shorter one, so the
\* first alternative whose text matches decides.
LabelEnd(t, i) ==
  IF \E a \in 1..Len(systems) : MatchesAt(t, i, systems[a])
    THEN i + Len(systems[CHOOSE a \in 1..Len(systems) :
                   /\ MatchesAt(t, i, systems[a])
                   /\ \A b \in 1..(a - 1) : ~MatchesAt(t, i, systems[b])])
    ELSE With(TokenEnd(t, i), LAMBDA e :
           IF e > i /\ MatchesAt(t, e, SpaceDelta) THEN e + Len(SpaceDelta)
           ELSE 0)

\* [\s\S]*? before the rule: the first index >= e where 60 dashes start, else 0.
FirstRun(t, e) ==
  With({r \in e..Len(t) : HasRunAt(t, r)}, LAMBDA runs :
    IF runs = {} THEN 0 ELSE Min(runs))

\* [-]{60,} is greedy: the index just after the whole run of dashes.
DashEnd(t, d) ==
  Min({k \in d..Len(t) : t[k] # "-"} \cup {Len(t) + 1})

\* \s*? takes nothing and group 3 is lazy: it stops at the first index where
\* the lookahead (?=\n[-]{60,}|\Z) holds.
BodyEnd(t, q) ==
  Min({k \in q..Len(t) : t[k] = "\n" /\ HasRunAt(t, k + 1)} \cup {Len(t) + 1})

NoMatch == [found |-> FALSE]

\* The match whose label starts at index i (start is where group 1 begins).
MatchAtLabel(t, start, i) ==
  With(IF i <= Len(t) THEN LabelEnd(t, i) ELSE 0, LAMBDA e :
  With(IF e = 0 THEN 0 ELSE FirstRun(t, e), LAMBDA r :
    IF r = 0 THEN NoMatch
    ELSE With(DashEnd(t, r), LAMBDA d :
         With(BodyEnd(t, d), LAMBDA q :
           [found |-> TRUE, start |-> start, label |-> i,
            group2 |-> Slice(t, i, e), group3 |-> Slice(t, d, q),
            end |-> q]))))

\* The attempt at index p: (\n|^) tries \n first, then ^ (MULTILINE).
MatchAt(t, p) ==
  With(IF p <= Len(t) /\ t[p] = "\n" THEN MatchAtLabel(t, p, p + 1) ELSE NoMatch,
       LAMBDA viaNewline :
    IF viaNewline.found THEN viaNewline
    ELSE IF p = 1 \/ t[p - 1] = "\n" THEN MatchAtLabel(t, p, p)
    ELSE NoMatch)

\* The leftmost match at or after index p.
SearchFrom(t, p) ==
  With({k \in p..(Len(t) + 1) : MatchAt(t, k).found}, LAMBDA starts :
    IF starts = {} THEN NoMatch ELSE MatchAt(t, Min(starts)))

\* data_pattern.finditer(text): the successive non-overlapping matches.
\* A scan that resumes one character after the start of each match instead of
\* at its end, so that matches may overlap.
RECURSIVE FindIterOverlapping(_, _)
FindIterOverlapping(t, p) ==
  With(SearchFrom(t, p), LAMBDA m :
    IF ~m.found THEN <<>> ELSE <<m>> \o FindIterOverlapping(t, m.start + 1))

RECURSIVE FindIter(_, _)
FindIter(t, p) ==
  With(SearchFrom(t, p), LAMBDA m :
    IF ~m.found THEN <<>> ELSE <<m>> \o FindIter(t, m.end))

-----------------------------------------------------------------------------
(* float(p): the literals Python accepts and the value they denote.  A     *)
(* finite value is kept as an exact decimal neg * mant * 10^exp with mant  *)
(* not divisible by 10; this is faithful for literals of at most 15        *)
(* significant digits inside the binary64 range, whose doubles are         *)
(* distinct exactly when the decimals are.                                 *)

NoFloat == [ok |-> FALSE]

InfWord == <<"i","n","f">>

InfinityWord == <<"i","n","f","i","n","i","t","y">>

NanWord == <<"n","a","n">>

LowerAll(s) == [k \in 1..Len(s) |-> Lower(s[k])]

\* digitpart ::= digit (["_"] digit)* starting at i: the index just after it
\* (i itself when no digit stands at i).
RECURSIVE DigitPartEnd(_, _, _)
DigitPartEnd(s, i, underscores) ==
  IF i <= Len(s) /\ IsDigit(s[i]) THEN
    LET j == i + 1
    IN  IF j <= Len(s) /\ IsDigit(s[j]) THEN DigitPartEnd(s, j, underscores)
        ELSE IF underscores /\ j + 1 <= Len(s) /\ s[j] = "_" /\ IsDigit(s[j + 1])
          THEN DigitPartEnd(s, j + 1, underscores)
        ELSE j
  ELSE i

\* The digits of s[a:b), underscores dropped, as <<value, number of digits>>.
RECURSIVE DigitsValue(_, _, _, _, _)
DigitsValue(s, a, b, acc, n) ==
  IF a >= b THEN <<acc, n>>
  ELSE IF s[a] = "_" THEN DigitsValue(s, a + 1, b, acc, n)
  ELSE DigitsValue(s, a + 1, b, acc * 10 + DigitVal(s[a]), n + 1)

RECURSIVE Pow10(_)
Pow10(n) == IF n <= 0 THEN 1 ELSE 10 * Pow10(n - 1)

RECURSIVE Normalize(_, _, _)
Normalize(neg, mant, exp) ==
  IF mant = 0 THEN [ok |-> TRUE, kind |-> "num", neg |-> neg, mant |-> 0, exp |-> 0]
  ELSE IF mant % 10 = 0 THEN Normalize(neg, mant \div 10, exp + 1)
  ELSE [ok |-> TRUE, kind |-> "num", neg |-> neg, mant |-> mant, exp |-> exp]

\* A decimal literal from index i on (the sign already consumed).
ParseDecimal(s, i, neg, underscores) ==
  With(DigitPartEnd(s, i, underscores), LAMBDA intEnd :
  With(intEnd <= Len(s) /\ s[intEnd] = ".", LAMBDA hasDot :
  With(IF hasDot THEN intEnd + 1 ELSE intEnd, LAMBDA fracFrom :
  With(IF hasDot THEN DigitPartEnd(s, fracFrom, underscores) ELSE intEnd,
       LAMBDA fracEnd :
  With(fracEnd <= Len(s) /\ Lower(s[fracEnd]) = "e", LAMBDA hasExp :
  With(hasExp /\ fracEnd + 1 <= Len(s) /\ s[fracEnd + 1] \in {"+", "-"},
       LAMBDA expSign :
  With(IF hasExp THEN (IF expSign THEN fracEnd + 2 ELSE fracEnd + 1)
       ELSE fracEnd, LAMBDA expFrom :
  With(IF hasExp THEN DigitPartEnd(s, expFrom, underscores) ELSE fracEnd,
       LAMBDA expEnd :
  With(DigitsValue(s, i, intEnd, 0, 0), LAMBDA ip :
  With(DigitsValue(s, fracFrom, fracEnd, 0, 0), LAMBDA fp :
  With(DigitsValue(s, expFrom, expEnd, 0, 0), LAMBDA ep :
  With(IF hasExp /\ expSign /\ s[fracEnd + 1] = "-" THEN 0 - ep[1] ELSE ep[1],
       LAMBDA e :
    IF /\ (intEnd > i \/ fracEnd > fracFrom)
       /\ (hasExp => expEnd > expFrom)
       /\ expEnd = Len(s) + 1
      THEN Normalize(neg, ip[1] * Pow10(fp[2]) + fp[1], e - fp[2])
      ELSE NoFloat))))))))))))

\* A literal of the grammar float() and pandas' number parser share; they
\* differ in whether "_" may separate digits.
ParseNumber(s, underscores) ==
  With(Len(s) >= 1 /\ s[1] \in {"+", "-"}, LAMBDA signed :
  With(signed /\ s[1] = "-", LAMBDA neg :
  With(IF signed THEN 2 ELSE 1, LAMBDA i :
  With(LowerAll(SubSeq(s, i, Len(s))), LAMBDA word :
    IF word = NanWord THEN [ok |-> TRUE, kind |-> "nan"]
    ELSE IF word = InfWord \/ word = InfinityWord
      THEN [ok |-> TRUE, kind |-> "inf", neg |-> neg]
    ELSE ParseDecimal(s, i, neg, underscores)))))

\* float(p) for a token p (no surrounding whitespace); NoFloat is ValueError.
ParseFloat(p) == ParseNumber(p, TRUE)

-----------------------------------------------------------------------------
(* The body of mmpbsa_to_csv between reading the report and writing the    *)
(* CSV file.                                                               *)

DeltaName == <<"D","e","l","t","a">>

\* Normalize system name
SystemName(section_prefix) ==
  IF Contains(section_prefix, DeltaName) THEN DeltaName
  ELSE With(SplitOn(section_prefix, ":")[1], LAMBDA head : Strip(head))

\* The filter at the head of the row loop: `not line or line.startswith('-')`.
SkipLine(line) == line = <<>> \/ StartsWith(line, <<"-">>)

\* One raw line of the table content: the rows it appends (none or one).
RowOf(system_name, raw) ==
  With(Strip(raw), LAMBDA line :
    IF SkipLine(line) THEN <<>>
    ELSE With(SplitWs(line, 1), LAMBDA parts :
      IF Len(parts) >= 6 THEN
        With(<<ParseFloat(parts[2]), ParseFloat(parts[3]), ParseFloat(parts[4]),
               ParseFloat(parts[5]), ParseFloat(parts[6])>>, LAMBDA values :
          IF \A k \in 1..5 : values[k].ok
            THEN << ("System" :> system_name) @@
                    ("Energy_Component" :> parts[1]) @@
                    ("Average" :> values[1]) @@
                    ("SD(Prop.)" :> values[2]) @@
                    ("SD" :> values[3]) @@
                    ("SEM(Prop.)" :> values[4]) @@
                    ("SEM" :> values[5]) >>
            ELSE <<>>)
      ELSE <<>>))

RECURSIVE RowsOf(_, _, _)
RowsOf(system_name, lines, k) ==
  IF k > Len(lines) THEN <<>>
  ELSE RowOf(system_name, lines[k]) \o RowsOf(system_name, lines, k + 1)

\* One iteration of `for match in data_pattern.finditer(...)`.
Section(m) ==
  With(Strip(m.group2), LAMBDA section_prefix :
  With(Strip(m.group3), LAMBDA table_content :
  With(SystemName(section_prefix), LAMBDA system_name :
  With(SplitOn(table_content, "\n"), LAMBDA lines :
    [label |-> m.label, end |-> m.end, section_prefix |-> section_prefix,
     system_name |-> system_name, table_content |-> table_content,
     rows |-> RowsOf(system_name, lines, 1)]))))

RECURSIVE SectionLoop(_, _)
SectionLoop(ms, k) ==
  IF k > Len(ms) THEN <<>> ELSE <<Section(ms[k])>> \o SectionLoop(ms, k + 1)

\* The section loop over the matches of data_pattern in the text.
Sections(text) == With(FindIter(text, 1), LAMBDA ms : SectionLoop(ms, 1))

RECURSIVE ConcatRows(_, _)
ConcatRows(secs, k) ==
  IF k > Len(secs) THEN <<>> ELSE secs[k].rows \o ConcatRows(secs, k + 1)

\* parsed_data once the section loop has finished.
ParsedData(text) == With(Sections(text), LAMBDA secs : ConcatRows(secs, 1))

-----------------------------------------------------------------------------
(* csv.DictWriter: str(value) of each field, QUOTE_MINIMAL quoting, "," as *)
(* delimiter and "\r\n" after every row.                                   *)

fieldnames == <<"System", "Energy_Component", "Average", "SD(Prop.)", "SD",
                "SEM(Prop.)", "SEM">>

\* The header cells as text.
HeaderText(name) ==
  CASE name = "System"           -> <<"S","y","s","t","e","m">>
    [] name = "Energy_Component" -> <<"E","n","e","r","g","y","_","C","o","m",
                                      "p","o","n","e","n","t">>
    [] name = "Average"          -> <<"A","v","e","r","a","g","e">>
    [] name = "SD(Prop.)"        -> <<"S","D","(","P","r","o","p",".",")">>
    [] name = "SD"               -> <<"S","D">>
    [] name = "SEM(Prop.)"       -> <<"S","E","M","(","P","r","o","p",".",")">>
    [] name = "SEM"              -> <<"S","E","M">>

\* The decimal digits of a natural number.
RECURSIVE DigitsOf(_)
DigitsOf(n) ==
  IF n < 10 THEN <<Digits[n + 1]>> ELSE DigitsOf(n \div 10) \o <<Digits[(n % 10) + 1]>>

Zeros(n) == [k \in 1..n |-> "0"]

\* repr(float): the shortest digits, positional when the decimal point falls
\* in -4 < decpt <= 16 and scientific (two exponent digits at least) otherwise.
FloatRepr(v) ==
  IF v.kind = "nan" THEN NanWord
  ELSE IF v.kind = "inf" THEN (IF v.neg THEN <<"-">> ELSE <<>>) \o InfWord
  ELSE
    With(DigitsOf(v.mant), LAMBDA D :
    With(Len(D), LAMBDA k :
    With(k + v.exp, LAMBDA decpt :
    With(IF v.neg THEN <<"-">> ELSE <<>>, LAMBDA sign :
    With(decpt - 1, LAMBDA e :
    With(IF e < 0 THEN 0 - e ELSE e, LAMBDA ae :
    With(IF ae < 10 THEN <<"0">> \o DigitsOf(ae) ELSE DigitsOf(ae), LAMBDA ed :
      IF decpt > 16 \/ decpt < -3
        THEN sign \o <<D[1]>>
             \o (IF k > 1 THEN <<".">> \o SubSeq(D, 2, k) ELSE <<>>)
             \o <<"e">> \o (IF e < 0 THEN <<"-">> ELSE <<"+">>) \o ed
      ELSE IF decpt <= 0
        THEN sign \o <<"0", ".">> \o Zeros(0 - decpt) \o D
      ELSE IF decpt >= k
        THEN sign \o D \o Zeros(decpt - k) \o <<".", "0">>
      ELSE sign \o SubSeq(D, 1, decpt) \o <<".">> \o SubSeq(D, decpt + 1, k))))))))

\* str() of a row's value under a field name.
FieldText(row, name) ==
  IF name \in {"System", "Energy_Component"} THEN row[name]
  ELSE FloatRepr(row[name])

RECURSIVE DoubleQuotes(_, _)
DoubleQuotes(f, k) ==
  IF k > Len(f) THEN <<>>
  ELSE (IF f[k] = "\"" THEN <<"\"", "\"">> ELSE <<f[k]>>) \o DoubleQuotes(f, k + 1)

\* QUOTE_MINIMAL: quote a field that holds the delimiter, the quote character
\* or a character of the line terminator.
QuoteField(field) ==
  With(field, LAMBDA f :
    IF \E k \in 1..Len(f) : f[k] \in {",", "\"", "\r", "\n"}
      THEN <<"\"">> \o DoubleQuotes(f, 1) \o <<"\"">>
      ELSE f)

RECURSIVE JoinFields(_, _)
JoinFields(fields, k) ==
  IF k > Len(fields) THEN <<>>
  ELSE (IF k > 1 THEN <<",">> ELSE <<>>) \o QuoteField(fields[k])
       \o JoinFields(fields, k + 1)

\* writer.writerow: the joined fields and the line terminator.
CsvLine(fields) == With(fields, LAMBDA fs_ : JoinFields(fs_, 1)) \o <<"\r", "\n">>

RECURSIVE WriteRows(_, _)
WriteRows(rows, k) ==
  IF k > Len(rows) THEN <<>>
  ELSE CsvLine([j \in 1..Len(fieldnames) |-> FieldText(rows[k], fieldnames[j])])
       \o WriteRows(rows, k + 1)

\* writer.writeheader() then writer.writerows(parsed_data).
CsvText(rows) ==
  CsvLine([j \in 1..Len(fieldnames) |-> HeaderText(fieldnames[j])])
  \o WriteRows(rows, 1)

-----------------------------------------------------------------------------
(* os.path.splitext (posixpath: separator "/", extension separator ".").   *)

LastIndexOf(p, c) == Max({k \in 1..Len(p) : p[k] = c} \cup {0})

\* <<root, ext>>: the extension starts at the last dot of the last path
\* component, unless only dots precede it in that component.
splitext(p) ==
  With(LastIndexOf(p, "/"), LAMBDA sepIndex :
  With(LastIndexOf(p, "."), LAMBDA dotIndex :
    IF /\ dotIndex > sepIndex
       /\ \E k \in (sepIndex + 1)..(dotIndex - 1) : p[k] # "."
      THEN <<SubSeq(p, 1, dotIndex - 1), SubSeq(p, dotIndex, Len(p))>>
      ELSE <<p, <<>> >>))

DotCsv == <<".","c","s","v">>

DotDat == <<".","d","a","t">>

\* output_filepath = base + ".csv"
OutputPath(input_filepath) == splitext(input_filepath)[1] \o DotCsv

-----------------------------------------------------------------------------
(* pd.read_csv with its defaults: "," delimiter, '"' quoting with doubled  *)
(* quotes, any of \n, \r, \r\n ending a line, blank lines skipped, the     *)
(* first row as header, the default NA strings read as NaN, and each       *)
(* column's type inferred from its non-NA fields.                          *)

IsTerminator(c) == c \in {"\n", "\r"}

\* The index after the line terminator that starts at index k.
AfterTerminator(s, k) ==
  IF s[k] = "\r" /\ k + 1 <= Len(s) /\ s[k + 1] = "\n" THEN k + 2 ELSE k + 1

\* "" inside a quoted field stands for one quote.
RECURSIVE Unescape(_, _)
Unescape(f, k) ==
  IF k > Len(f) THEN <<>>
  ELSE IF f[k] = "\"" /\ k + 1 <= Len(f) /\ f[k + 1] = "\""
    THEN <<"\"">> \o Unescape(f, k + 2)
  ELSE <<f[k]>> \o Unescape(f, k + 1)

\* The first index >= i holding the delimiter or a line terminator, or Len(s) + 1.
FieldEnd(s, i) ==
  Min({k \in i..Len(s) : s[k] = "," \/ IsTerminator(s[k])} \cup {Len(s) + 1})

\* The closing quote of the quoted field opened at index i, 0 when there is none:
\* the first quote after i that is not half of a doubled quote.
ClosingQuote(s, i) ==
  With({k \in (i + 1)..Len(s) :
          /\ s[k] = "\""
          /\ Cardinality({j \in (i + 1)..k : s[j] = "\""}) % 2 = 1
          /\ (k = Len(s) \/ s[k + 1] # "\"")}, LAMBDA closers :
    IF closers = {} THEN 0 ELSE Min(closers))

\* The field that starts at index i: its text and the index where it ends.
NextField(s, i) ==
  IF i <= Len(s) /\ s[i] = "\"" THEN
    With(ClosingQuote(s, i), LAMBDA c :
      IF c = 0 THEN [ok |-> FALSE]
      ELSE With(FieldEnd(s, c + 1), LAMBDA e :
           With(SubSeq(s, i + 1, c - 1), LAMBDA quoted :
             [ok |-> TRUE, end |-> e,
              text |-> Unescape(quoted, 1) \o SubSeq(s, c + 1, e - 1)])))
  ELSE With(FieldEnd(s, i), LAMBDA e :
         [ok |-> TRUE, end |-> e, text |-> SubSeq(s, i, e - 1)])

\* The rows of fields of the text from index i on; <<"error">> for a quoted
\* field that never closes.
RECURSIVE Tokenize(_, _, _, _, _)
Tokenize(s, i, row, rows, atLineStart) ==
  IF atLineStart /\ i > Len(s) THEN rows
  ELSE IF atLineStart /\ IsTerminator(s[i])
    THEN Tokenize(s, AfterTerminator(s, i), <<>>, rows, TRUE)
  ELSE
    With(NextField(s, i), LAMBDA f :
      IF ~f.ok THEN <<"error">>
      ELSE With(Append(row, f.text), LAMBDA fields :
        IF f.end > Len(s) THEN Append(rows, fields)
        ELSE IF s[f.end] = "," THEN Tokenize(s, f.end + 1, fields, rows, FALSE)
        ELSE With(Append(rows, fields), LAMBDA more :
               Tokenize(s, AfterTerminator(s, f.end), <<>>, more, TRUE))))

\* pandas' default na_values.
NaValues ==
  { <<>>, <<"#","N","/","A">>, <<"#","N","/","A"," ","N","/","A">>,
    <<"#","N","A">>, <<"-","1",".","#","I","N","D">>,
    <<"-","1",".","#","Q","N","A","N">>, <<"-","N","a","N">>,
    <<"-","n","a","n">>, <<"1",".","#","I","N","D">>,
    <<"1",".","#","Q","N","A","N">>, <<"<","N","A",">">>, <<"N","/","A">>,
    <<"N","A">>, <<"N","U","L","L">>, <<"N","a","N">>, <<"N","o","n","e">>,
    <<"n","/","a">>, <<"n","a","n">>, <<"n","u","l","l">> }

TrueValues == { <<"T","r","u","e">>, <<"T","R","U","E">>, <<"t","r","u","e">> }

FalseValues == { <<"F","a","l","s","e">>, <<"F","A","L","S","E">>,
                 <<"f","a","l","s","e">> }

NaN == [t |-> "float", v |-> [ok |-> TRUE, kind |-> "nan"]]

\* The cells of one column, its fields given top to bottom.
InferColumn(fields) ==
  LET present == {k \in 1..Len(fields) : fields[k] \notin NaValues}
  IN  IF \A k \in present : ParseNumber(fields[k], FALSE).ok
        THEN [k \in 1..Len(fields) |->
                IF k \in present
                  THEN [t |-> "float", v |-> ParseNumber(fields[k], FALSE)]
                  ELSE NaN]
      ELSE IF \A k \in present : fields[k] \in TrueValues \cup FalseValues
        THEN [k \in 1..Len(fields) |->
                IF k \in present
                  THEN [t |-> "bool", v |-> fields[k] \in TrueValues]
                  ELSE NaN]
      ELSE [k \in 1..Len(fields) |->
              IF k \in present THEN [t |-> "str", v |-> fields[k]] ELSE NaN]

\* pd.read_csv(text): the table, or the exception it raises.  A row with
\* fewer fields than the header is padded with NaN.
ReadCsv(s) ==
  With(Tokenize(s, 1, <<>>, <<>>, TRUE), LAMBDA rows :
    IF rows = <<>> THEN [kind |-> "raise", exc |-> "EmptyDataError"]
    ELSE IF rows = <<"error">> \/ \E k \in 2..Len(rows) : Len(rows[k]) > Len(rows[1])
      THEN [kind |-> "raise", exc |-> "ParserError"]
    ELSE
      LET header == rows[1]
          n      == Len(rows) - 1
          field(k, j) == IF j <= Len(rows[k + 1]) THEN rows[k + 1][j] ELSE <<>>
      IN  With([j \in 1..Len(header) |->
                  With([k \in 1..n |-> field(k, j)], LAMBDA fields :
                    InferColumn(fields))], LAMBDA cols :
            [kind |-> "return",
             value |-> [columns |-> header,
                        rows |-> [k \in 1..n |->
                                    [j \in 1..Len(header) |-> cols[j][k]]]]]))

-----------------------------------------------------------------------------
(* The file system and open().                                             *)

Dir == [kind |-> "dir"]

TextFile(chars) == [kind |-> "file", fmt |-> "text", data |-> chars]

PickleFile(obj) == [kind |-> "file", fmt |-> "pickle", data |-> obj]

Returns(v) == [kind |-> "return", value |-> v]

Raises(e) == [kind |-> "raise", exc |-> e]

\* The paths of the directories a path runs through.
Parents(path) == {SubSeq(path, 1, k - 1) : k \in {j \in 2..Len(path) : path[j] = "/"}}

\* A regular file stands where the path needs a directory (ENOTDIR).
UnderFile(fsys, path) ==
  \E q \in Parents(path) : q \in DOMAIN fsys /\ fsys[q].kind = "file"

\* open(path, 'r') / open(path, 'rb'): the file, or the OSError raised.
OpenRead(fsys, path) ==
  IF UnderFile(fsys, path) THEN Raises("NotADirectoryError")
  ELSE IF path \notin DOMAIN fsys THEN Raises("FileNotFoundError")
  ELSE IF fsys[path].kind = "dir" THEN Raises("IsADirectoryError")
  ELSE Returns(fsys[path])

\* open(path, 'w'): creates or truncates the file, or raises.
OpenWrite(fsys, path) ==
  IF UnderFile(fsys, path) THEN Raises("NotADirectoryError")
  ELSE IF path \in DOMAIN fsys /\ fsys[path].kind = "dir"
    THEN Raises("IsADirectoryError")
  ELSE Returns(path)

WriteFile(fsys, path, entry) ==
  [q \in DOMAIN fsys \cup {path} |-> IF q = path THEN entry ELSE fsys[q]]

-----------------------------------------------------------------------------
(* mmpbsa_to_csv, convert_bfedat, load_bfedat.                             *)

\* except FileNotFoundError: return f"Error: Input file not found at path: ..."
NotFoundOutcome(input_filepath) ==
  Returns(<<"Error: Input file not found at path: ", input_filepath>>)

\* The whole of mmpbsa_to_csv(input_filepath) on file system fsys: the file
\* system it leaves, how it ends, its locals and the files it opened.
Convert(fsys, input_filepath) ==
  LET f   == OpenRead(fsys, input_filepath)
      rd  == <<[path |-> input_filepath, mode |-> "r"]>>
      early(r) == [fs |-> fsys, sections |-> <<>>, parsed_data |-> <<>>,
                   opened |-> rd, ret |-> r]
  IN  IF f.kind = "raise" /\ f.exc = "FileNotFoundError"
        THEN early(NotFoundOutcome(input_filepath))
      ELSE IF f.kind = "raise" THEN early(f)
      ELSE IF f.value.fmt # "text" THEN early(Raises("UnicodeDecodeError"))
      ELSE
        With(Sections(f.value.data), LAMBDA secs :
        With(ConcatRows(secs, 1), LAMBDA rows :
        With(OutputPath(input_filepath), LAMBDA output_filepath :
          LET w    == OpenWrite(fsys, output_filepath)
              both == rd \o <<[path |-> output_filepath, mode |-> "w"]>>
          IN  IF w.kind = "raise"
                THEN [fs |-> fsys, sections |-> secs, parsed_data |-> rows,
                      opened |-> both,
                      ret |-> Returns(<<"Error writing CSV file to ",
                                        output_filepath, ": ", w.exc>>)]
                ELSE [fs |-> WriteFile(fsys, output_filepath,
                                       TextFile(CsvText(rows))),
                      sections |-> secs, parsed_data |-> rows, opened |-> both,
                      ret |-> Returns(<<"Successfully parsed data and saved to CSV file: ",
                                        output_filepath>>)])))

\* fname's default, 'FINAL_RESULTS_MMPBSA'.
DefaultFname == <<"F","I","N","A","L","_","R","E","S","U","L","T","S","_",
                  "M","M","P","B","S","A">>

\* fpath = path + '/' + bfefname + '/' + fname
Fpath(bfefname, path, fname) == path \o <<"/">> \o bfefname \o <<"/">> \o fname

mmpbsa_to_csv(input_filepath) ==
  \E r \in {Convert(fs, input_filepath)} :
      /\ call' = [op |-> "mmpbsa_to_csv", input_filepath |-> input_filepath]
      /\ fs' = r.fs
      /\ ret' = r.ret
      /\ sections' = r.sections
      /\ parsed_data' = r.parsed_data
      /\ opened' = r.opened
      /\ UNCHANGED <<dfconf, dfpickels>>

\* convert_bfedat drops what mmpbsa_to_csv returns; what it raises propagates.
convert_bfedat(bfefname, path, fname) ==
  \E r \in {Convert(fs, Fpath(bfefname, path, fname) \o DotDat)} :
      /\ call' = [op |-> "convert_bfedat", bfefname |-> bfefname,
                  path |-> path, fname |-> fname]
      /\ fs' = r.fs
      /\ ret' = IF r.ret.kind = "raise" THEN r.ret ELSE Returns("None")
      /\ sections' = r.sections
      /\ parsed_data' = r.parsed_data
      /\ opened' = r.opened
      /\ UNCHANGED <<dfconf, dfpickels>>

load_bfedat(bfefname, path, fname) ==
  LET csvpath == Fpath(bfefname, path, fname) \o DotCsv
      f == OpenRead(fs, csvpath)
  IN  /\ call' = [op |-> "load_bfedat", bfefname |-> bfefname,
                  path |-> path, fname |-> fname]
      /\ \E df \in {IF f.kind = "raise" THEN f
                     ELSE IF f.value.fmt # "text" THEN Raises("UnicodeDecodeError")
                     ELSE ReadCsv(f.value.data)} : ret' = df
      /\ opened' = <<[path |-> csvpath, mode |-> "r"]>>
      /\ UNCHANGED <<fs, sections, parsed_data, dfconf, dfpickels>>

-----------------------------------------------------------------------------
(* load_pickle and load_pickles.                                           *)

\* filename's default, 'ana.pickle'.
DefaultFilename == <<"a","n","a",".","p","i","c","k","l","e">>

\* fullpath = path + '/' + filename
Fullpath(path, filename) == path \o <<"/">> \o filename

\* load_pickle(path, filename): the object, or the exception raised by open
\* or by pickle.load.
LoadPickle(fsys, path, filename) ==
  LET f == OpenRead(fsys, Fullpath(path, filename))
  IN  IF f.kind = "raise" THEN f
      ELSE IF f.value.fmt # "pickle" THEN Raises("UnpicklingError")
      ELSE Returns(f.value.data)

load_pickle(path, filename) ==
  /\ call' = [op |-> "load_pickle", path |-> path, filename |-> filename]
  /\ ret' = LoadPickle(fs, path, filename)
  /\ opened' = <<[path |-> Fullpath(path, filename), mode |-> "rb"]>>
  /\ UNCHANGED <<fs, sections, parsed_data, dfconf, dfpickels>>

\* A loop that steps over a path whose load raises and carries on.
RECURSIVE LoadLoopSkipping(_, _, _, _, _, _)
LoadLoopSkipping(fsys, paths, filename, k, datas, log) ==
  IF k > Len(paths) THEN [ret |-> Returns(datas), opened |-> log]
  ELSE With(LoadPickle(fsys, paths[k], filename), LAMBDA data :
       With(Append(log, [path |-> Fullpath(paths[k], filename), mode |-> "rb"]),
            LAMBDA log2 :
       With(IF data.kind = "raise" THEN datas ELSE Append(datas, data.value),
            LAMBDA more :
         LoadLoopSkipping(fsys, paths, filename, k + 1, more, log2))))

\* The loop of load_pickles from path k on: datas so far, the files opened so
\* far; the first load that raises ends the call with its exception.
RECURSIVE LoadLoop(_, _, _, _, _, _)
LoadLoop(fsys, paths, filename, k, datas, log) ==
  IF k > Len(paths) THEN [ret |-> Returns(datas), opened |-> log]
  ELSE With(LoadPickle(fsys, paths[k], filename), LAMBDA data :
       With(Append(log, [path |-> Fullpath(paths[k], filename), mode |-> "rb"]),
            LAMBDA log2 :
         IF data.kind = "raise" THEN [ret |-> data, opened |-> log2]
         ELSE With(Append(datas, data.value), LAMBDA more :
                LoadLoop(fsys, paths, filename, k + 1, more, log2))))

\* load_pickles(dfconf, filename) over paths = dfconf['PATH'].values.
LoadPickles(fsys, conf, filename) ==
  LoadLoop(fsys, conf["PATH"], filename, 1, <<>>, <<>>)

\* datas = load_pickles(dfconf): the caller keeps the list when one is returned.
load_pickles(filename) ==
  \E r \in {LoadPickles(fs, dfconf, filename)} :
    /\ call' = [op |-> "load_pickles", filename |-> filename]
    /\ ret' = r.ret
    /\ opened' = r.opened
    /\ dfpickels' = IF r.ret.kind = "return" THEN r.ret.value ELSE dfpickels
    /\ UNCHANGED <<fs, sections, parsed_data, dfconf>>

-----------------------------------------------------------------------------
(* load_analysis, load_ana and the four presets.  A DataFrame is its row   *)
(* count (a RangeIndex) and its columns in order, each a label and the     *)
(* identity of its data; a bundle is a dict from key to DataFrame.         *)

\* A column selection: one label, or a list of labels.
Label(l) == [kind |-> "label", label |-> l]

Labels(ls) == [kind |-> "list", labels |-> ls]

\* The columns of df labelled l, in order.
ColumnsLabelled(df, l) ==
  LET RECURSIVE pick(_)
      pick(j) == IF j > Len(df.columns) THEN <<>>
                 ELSE (IF df.columns[j].label = l THEN <<df.columns[j]>> ELSE <<>>)
                      \o pick(j + 1)
  IN  pick(1)

HasLabel(df, l) == \E j \in 1..Len(df.columns) : df.columns[j].label = l

\* r.loc[:, colkeys]: a Series for a single label (one column), a DataFrame
\* for a list; KeyError when a label is absent.
Loc(df, colkeys) ==
  IF colkeys.kind = "label"
    THEN IF HasLabel(df, colkeys.label)
           THEN Returns([index |-> df.index,
                         columns |-> ColumnsLabelled(df, colkeys.label)])
           ELSE Raises("KeyError")
    ELSE IF \A j \in 1..Len(colkeys.labels) : HasLabel(df, colkeys.labels[j])
           THEN LET RECURSIVE take(_)
                    take(j) == IF j > Len(colkeys.labels) THEN <<>>
                               ELSE ColumnsLabelled(df, colkeys.labels[j])
                                    \o take(j + 1)
                IN  Returns([index |-> df.index, columns |-> take(1)])
           ELSE Raises("KeyError")

\* load_analysis(key, dfpickels): df[key] of every bundle, in order.
RECURSIVE LoadAnalysis(_, _, _)
LoadAnalysis(key, bundles, i) ==
  IF i > Len(bundles) THEN Returns(<<>>)
  ELSE IF key \notin DOMAIN bundles[i] THEN Raises("KeyError")
  ELSE With(LoadAnalysis(key, bundles, i + 1), LAMBDA rest :
         IF rest.kind = "raise" THEN rest
         ELSE Returns(<<bundles[i][key]>> \o rest.value))

\* The loop `for r in res: rez.append(r.loc[:, colkeys])`.
RECURSIVE SelectAll(_, _, _)
SelectAll(res, colkeys, i) ==
  IF i > Len(res) THEN Returns(<<>>)
  ELSE With(Loc(res[i], colkeys), LAMBDA r_ :
         IF r_.kind = "raise" THEN r_
         ELSE With(SelectAll(res, colkeys, i + 1), LAMBDA rest :
                IF rest.kind = "raise" THEN rest
                ELSE Returns(<<r_.value>> \o rest.value)))

\* The columns laid side by side with the last table first.
RECURSIVE ConcatColumnsReversed(_, _)
ConcatColumnsReversed(rez, i) ==
  IF i > Len(rez) THEN <<>>
  ELSE ConcatColumnsReversed(rez, i + 1) \o rez[i].columns

RECURSIVE ConcatColumns(_, _)
ConcatColumns(rez, i) ==
  IF i > Len(rez) THEN <<>> ELSE rez[i].columns \o ConcatColumns(rez, i + 1)

\* pd.concat(rez, axis=1): the columns side by side over the union of the
\* indexes; ValueError for an empty list.
Concat(rez) ==
  IF rez = <<>> THEN Raises("ValueError")
  ELSE Returns([index |-> Max({rez[i].index : i \in 1..Len(rez)}),
                columns |-> ConcatColumns(rez, 1)])

\* load_ana(key, dfpickels, colkeys)
LoadAna(key, bundles, colkeys) ==
  With(LoadAnalysis(key, bundles, 1), LAMBDA res :
    IF res.kind = "raise" THEN res
    ELSE With(SelectAll(res.value, colkeys, 1), LAMBDA rez :
           IF rez.kind = "raise" THEN rez ELSE Concat(rez.value)))

\* The presets' default for colkeys.
DefaultColkeys == 2

load_analysis(key) ==
  /\ call' = [op |-> "load_analysis", key |-> key]
  /\ ret' = LoadAnalysis(key, dfpickels, 1)
  /\ opened' = <<>>
  /\ UNCHANGED <<fs, sections, parsed_data, dfconf, dfpickels>>

load_ana(key, colkeys) ==
  /\ call' = [op |-> "load_ana", key |-> key, colkeys |-> colkeys]
  /\ ret' = LoadAna(key, dfpickels, colkeys)
  /\ opened' = <<>>
  /\ UNCHANGED <<fs, sections, parsed_data, dfconf, dfpickels>>

\* A preset called with its defaults: load_ana(key, dfpickels, 2).
Preset(name, key) ==
  /\ call' = [op |-> name, key |-> key, colkeys |-> Label(DefaultColkeys)]
  /\ ret' = LoadAna(key, dfpickels, Label(DefaultColkeys))
  /\ opened' = <<>>
  /\ UNCHANGED <<fs, sections, parsed_data, dfconf, dfpickels>>

load_rmsd == Preset("load_rmsd", "rmsd")

load_rg == Preset("load_rg", "rg")

load_sasa == Preset("load_sasa", "sasa")

load_hbond == Preset("load_hbond", "hbond")

-----------------------------------------------------------------------------
(* The inputs: report texts built from lines, and the files around them.   *)

Rule == [k \in 1..RuleMin |-> "-"]

RECURSIVE JoinLines(_, _)
JoinLines(lines, k) ==
  IF k > Len(lines) THEN <<>>
  ELSE (IF k > 1 THEN <<"\n">> ELSE <<>>) \o lines[k] \o JoinLines(lines, k + 1)

\* All sequences over 1..n of length 0..m.
RECURSIVE SeqsUpTo(_, _)
SeqsUpTo(n, m) ==
  IF m = 0 THEN {<<>>}
  ELSE LET shorter == SeqsUpTo(n, m - 1)
       IN  shorter \cup {Append(q, i) : q \in {r \in shorter : Len(r) = m - 1},
                                         i \in 1..n}

MaxLines == 4

MaxRows == 2

\* Heading, rule and row lines from which whole reports are assembled.
SectionLines ==
  << <<"C","o","m","p","l","e","x",":">>,
     <<"c","o","m","p","l","e","x">>,
     <<"A","-","B"," ","D","e","l","t","a">>,
     <<"C","o","m","p","l","e","x","A"," ","D","e","l","t","a">>,
     Rule,
     <<"X"," ","1"," ","2"," ","3"," ","4"," ","5">> >>

\* Lines of a table body placed under the heading "Complex:" and a rule.
RowLines ==
  << <<"A"," ","1"," ","2"," ","3"," ","4">>,
     <<"A"," ","1"," ","2"," ","N","/","A"," ","4"," ","5">>,
     <<"A"," ","1"," ","2"," ","3"," ","4"," ","5"," ","6">>,
     <<" ","q",",","\"","r","\t","1",".","5"," ","-","2"," "," ","3","e","1"," ",".","5"," ","1","_","0"," ">>,
     <<"-","T","D","S"," ","1"," ","2"," ","3"," ","4"," ","5">>,
     <<"-","-","-">>,
     <<>>,
     <<"N","A"," ","1"," ","2"," ","3"," ","4"," ","5">> >>

SectionTexts ==
  {JoinLines([k \in 1..Len(q) |-> SectionLines[q[k]]], 1) :
     q \in SeqsUpTo(Len(SectionLines), MaxLines)}

RowTexts ==
  {JoinLines(<< <<"C","o","m","p","l","e","x",":">>, Rule >>
             \o [k \in 1..Len(q) |-> RowLines[q[k]]], 1) :
     q \in SeqsUpTo(Len(RowLines), MaxRows)}

BasePath == <<"d">>

BfeName == <<"n">>

MissingPath == <<"m",".","d","a","t">>

ReportPath == Fpath(BfeName, BasePath, DefaultFname) \o DotDat

\* The layout convert_bfedat and load_bfedat expect, holding one report.
ReportFs(text) ==
  (BasePath :> Dir) @@ (BasePath \o <<"/">> \o BfeName :> Dir)
  @@ (ReportPath :> TextFile(text))

\* Where else a report may lie: paths with and without an extension.
InputPaths ==
  { <<"r",".","c","s","v">>,
    <<"r">>,
    <<".","c","s","v">>,
    <<"a",".","b","/","c">>,
    <<"r",".","C","S","V">>,
    <<"w",".","d","a","t">>,
    <<"d","/","r",".","t","a","r",".","g","z">> }

SampleText ==
  <<"C","o","m","p","l","e","x",":","\n">> \o Rule
  \o <<"\n","B","O","N","D"," ","1"," ","2"," ","3"," ","4"," ","5">>

\* A report at one of InputPaths; the path of its CSV file may be taken by a
\* directory or by an older file.
FileFs(p, text, taken) ==
  LET out == OutputPath(p)
  IN  (p :> TextFile(text))
      @@ (IF taken = "dir" /\ out # p THEN (out :> Dir)
          ELSE IF taken = "file" /\ out # p THEN (out :> TextFile(<<"o","l","d">>))
          ELSE <<>>)

\* Nothing has been called yet.
Idle ==
  /\ call = [op |-> "none"]
  /\ ret = [kind |-> "none"]
  /\ sections = <<>>
  /\ parsed_data = <<>>
  /\ opened = <<>>
  /\ dfpickels = <<>>

InitReport ==
  /\ dfconf = [PATH |-> <<>>]
  /\ fs \in {ReportFs(text) : text \in RowTexts}
           \cup {FileFs(p, SampleText, taken) :
                   p \in InputPaths, taken \in {"no", "dir", "file"}}
  /\ Idle

\* A path that runs through p.
Beneath(p) == p \o <<"/", "x">>

ExistingPaths == {p \in {ReportPath, BasePath} \cup InputPaths : p \in DOMAIN fs}

\* The paths handed to mmpbsa_to_csv: what exists of the paths above, a path
\* that does not exist in an existing directory, and paths that do not exist
\* because they run through a regular file.
ConvertArgs ==
  ExistingPaths \cup {MissingPath}
  \cup {Beneath(p) : p \in {q \in ExistingPaths : fs[q].kind = "file"}}

NextReport ==
  \/ \E p \in ConvertArgs : mmpbsa_to_csv(p)
  \/ convert_bfedat(BfeName, BasePath, DefaultFname)
  \/ load_bfedat(BfeName, BasePath, DefaultFname)
  \/ \E p \in {BasePath, ReportPath} : load_pickle(p, DefaultFilename)

\* The converter and its reader, called in any order on a report.
Spec == InitReport /\ [][NextReport]_vars

InitSections ==
  /\ dfconf = [PATH |-> <<>>]
  /\ fs \in {ReportFs(text) : text \in SectionTexts}
  /\ Idle

NextSections == mmpbsa_to_csv(ReportPath)

\* One conversion of a report assembled from heading, rule and row lines.
SpecSections == InitSections /\ [][NextSections]_vars

-----------------------------------------------------------------------------
(* The loader and the aggregator: simulation directories, some holding a   *)
(* bundle, and a configuration table naming up to MaxPaths of them.        *)

MaxPaths == 3

AnalysisKeys == {"rmsd", "rg", "sasa", "hbond"}

\* A DataFrame of the given labels whose data is owned by `owner`.
Frame(owner, key, labels, nrows) ==
  [index |-> nrows,
   columns |-> [j \in 1..Len(labels) |->
                  [label |-> labels[j], data |-> <<owner, key, j>>]]]

\* A bundle with the given keys, every sub-table of the same shape.
Bundle(owner, keys, labels, nrows) ==
  [key \in keys |-> Frame(owner, key, labels, nrows)]

SimDirs ==
  << <<"s","1">>, <<"s","2">>, <<"s","3">>, <<"s","4">>, <<"s","5">> >>

\* s1 and s2 hold complete bundles, s3 a bundle without "hbond" and without a
\* column labelled 2, s4 a file that is no pickle, s5 nothing.
LoaderFs ==
  [p \in {Fullpath(SimDirs[i], DefaultFilename) : i \in 1..4} |->
     IF p = Fullpath(SimDirs[1], DefaultFilename)
       THEN PickleFile(Bundle("s1", AnalysisKeys, <<0, 1, 2>>, 3))
     ELSE IF p = Fullpath(SimDirs[2], DefaultFilename)
       THEN PickleFile(Bundle("s2", AnalysisKeys, <<0, 1, 2, 3>>, 4))
     ELSE IF p = Fullpath(SimDirs[3], DefaultFilename)
       THEN PickleFile(Bundle("s3", {"rmsd", "rg", "sasa"}, <<0, 1>>, 2))
     ELSE TextFile(<<"x">>)]

InitLoad ==
  /\ fs = LoaderFs
  /\ dfconf \in {[PATH |-> [k \in 1..Len(q) |-> SimDirs[q[k]]]] :
                   q \in SeqsUpTo(Len(SimDirs), MaxPaths)}
  /\ call = [op |-> "none"]
  /\ ret = [kind |-> "none"]
  /\ sections = <<>>
  /\ parsed_data = <<>>
  /\ opened = <<>>
  /\ dfpickels = <<>>

Selections == {Label(2), Labels(<<0, 1>>), Labels(<<2, 0, 2>>), Labels(<<>>)}

NextLoad ==
  \/ load_pickles(DefaultFilename)
  \/ \E i \in {1, 5} : load_pickle(SimDirs[i], DefaultFilename)
  \/ \E key \in {"rmsd", "hbond"} : load_analysis(key)
  \/ \E key \in {"rmsd", "hbond"}, colkeys \in Selections : load_ana(key, colkeys)
  \/ load_rmsd
  \/ load_rg
  \/ load_sasa
  \/ load_hbond

\* Loading the bundles of a configuration table and aggregating series.
SpecLoad == InitLoad /\ [][NextLoad]_vars

-----------------------------------------------------------------------------
(* Properties of the report parser's row loop.                             *)

\* A rule line: one or more characters, all of them dashes.
IsRuleLine(line) == line # <<>> /\ \A k \in 1..Len(line) : line[k] = "-"

\* At least 6 tokens, tokens 1..5 numbers (token 0 is the component).
IsDataLine(parts) ==
  /\ Len(parts) >= 6
  /\ \A k \in 2..6 : ParseFloat(parts[k]).ok

\* The records a table body yields when each non-empty, non-rule line gives a
\* record exactly if it is a data line.
RECURSIVE RecordsOfDataLines(_, _, _)
RecordsOfDataLines(system_name, lines, k) ==
  IF k > Len(lines) THEN <<>>
  ELSE LET line  == Strip(lines[k])
           parts == SplitWs(line, 1)
       IN  (IF line # <<>> /\ ~IsRuleLine(line) /\ IsDataLine(parts)
              THEN << ("System" :> system_name) @@
                      ("Energy_Component" :> parts[1]) @@
                      ("Average" :> ParseFloat(parts[2])) @@
                      ("SD(Prop.)" :> ParseFloat(parts[3])) @@
                      ("SD" :> ParseFloat(parts[4])) @@
                      ("SEM(Prop.)" :> ParseFloat(parts[5])) @@
                      ("SEM" :> ParseFloat(parts[6])) >>
              ELSE <<>>)
           \o RecordsOfDataLines(system_name, lines, k + 1)

\* C1: in every section, the records are those of the table body's non-empty,
\* non-rule lines that have at least 6 tokens with numeric tokens 1..5, one
\* record per such line, in order, built from tokens 0..5; no other line
\* yields a record.
C1_RecordIffDataLine ==
  \A k \in 1..Len(sections) :
    sections[k].rows =
      RecordsOfDataLines(sections[k].system_name,
                         SplitOn(sections[k].table_content, "\n"), 1)

\* C5: every line of a table body that is neither empty nor a rule line and
\* is a data line has its record among the section's rows, also when its
\* first token begins with a dash.
C5_OnlyEmptyAndRuleLinesSkipped ==
  \A k \in 1..Len(sections) :
    LET lines == SplitOn(sections[k].table_content, "\n")
    IN  \A j \in 1..Len(lines) :
          LET line  == Strip(lines[j])
              parts == SplitWs(line, 1)
          IN  (line # <<>> /\ ~IsRuleLine(line) /\ IsDataLine(parts))
                => \E r \in 1..Len(sections[k].rows) :
                     sections[k].rows[r]["Energy_Component"] = parts[1]

-----------------------------------------------------------------------------
(* Properties of section discovery and label normalization, over the       *)
(* report converted last.                                                  *)

\* The text of the report at ReportPath; conversions leave it in place.
ReportText == fs[ReportPath].data

Converted == call.op = "mmpbsa_to_csv" /\ ret.kind = "return"

ComplexName == <<"C","o","m","p","l","e","x">>

ReceptorName == <<"R","e","c","e","p","t","o","r">>

LigandName == <<"L","i","g","a","n","d">>

\* The line on which index i lies, from i to the end of the line, trimmed.
HeadingLine(t, i) == Strip(Slice(t, i, IndexOf(t, "\n", i)))

\* "<word> Delta": one non-blank word, one space, the word Delta.
IsWordDelta(h) ==
  /\ Len(h) > Len(SpaceDelta)
  /\ SubSeq(h, Len(h) - Len(SpaceDelta) + 1, Len(h)) = SpaceDelta
  /\ \A k \in 1..(Len(h) - Len(SpaceDelta)) : ~IsSpace(h[k])

AllSystems(rows, name) == \A r \in 1..Len(rows) : rows[r]["System"] = name

\* C2: a section headed "<word> Delta" yields records with System "Delta",
\* whatever the word; a section headed "Complex" or "Complex:" yields records
\* with System "Complex".
C2_HeadingNormalized ==
  Converted =>
    \A k \in 1..Len(sections) :
      LET h == HeadingLine(ReportText, sections[k].label)
      IN  /\ IsWordDelta(h) => AllSystems(sections[k].rows, DeltaName)
          /\ h \in {ComplexName, ComplexName \o <<":">>}
               => AllSystems(sections[k].rows, ComplexName)

\* C3: the System of every record is one of Complex, Receptor, Ligand, Delta.
C3_SystemIsOneOfFour ==
  \A r \in 1..Len(parsed_data) :
    parsed_data[r]["System"] \in {ComplexName, ReceptorName, LigandName, DeltaName}

\* A label stands at index i: i starts a line and group 2 matches there.
IsLabelAt(t, i) ==
  /\ i <= Len(t)
  /\ i = 1 \/ t[i - 1] = "\n"
  /\ LabelEnd(t, i) > 0

\* A rule of RuleMin dashes or more begins somewhere after the label at i.
HasRuleAfter(t, i) == \E r \in LabelEnd(t, i)..Len(t) : HasRunAt(t, r)

\* The label occurrences that a rule-delimited table follows.
LabelOccurrences(t) ==
  {i \in 1..Len(t) : IsLabelAt(t, i) /\ HasRuleAfter(t, i)}

-----------------------------------------------------------------------------
(* Properties of the files read and written.                               *)

NoWrite(log) == \A k \in 1..Len(log) : log[k].mode # "w"

\* C6: mmpbsa_to_csv on a path that does not exist returns the string saying
\* the input was not found, raises nothing and leaves every file as it was;
\* load_pickle on a path that does not exist raises to its caller.
C6_NotFound ==
  [][ /\ (call'.op = "mmpbsa_to_csv" /\ call'.input_filepath \notin DOMAIN fs)
        => /\ ret' = Returns(<<"Error: Input file not found at path: ",
                               call'.input_filepath>>)
           /\ fs' = fs
           /\ NoWrite(opened')
      /\ (call'.op = "load_pickle"
          /\ Fullpath(call'.path, call'.filename) \notin DOMAIN fs)
        => /\ ret'.kind = "raise"
           /\ fs' = fs ]_vars

\* The table has the seven columns and, row for row, the strings and the
\* numbers of the records.
SameTable(table, rows) ==
  /\ table.columns = [j \in 1..Len(fieldnames) |-> HeaderText(fieldnames[j])]
  /\ Len(table.rows) = Len(rows)
  /\ \A k \in 1..Len(rows) :
       /\ Len(table.rows[k]) = Len(fieldnames)
       /\ \A j \in 1..2 :
            table.rows[k][j] = [t |-> "str", v |-> rows[k][fieldnames[j]]]
       /\ \A j \in 3..Len(fieldnames) :
            table.rows[k][j] = [t |-> "float", v |-> rows[k][fieldnames[j]]]

\* The call has written its CSV file.
Written ==
  \E k \in 1..Len(opened) :
    /\ opened[k].mode = "w"
    /\ opened[k].path \in DOMAIN fs
    /\ fs[opened[k].path].kind = "file"

\* C7: reading the file back right after a conversion that has written it
\* yields the table of the records the parser produced.
C7_RoundTrip ==
  [][ (/\ call.op = "convert_bfedat"
       /\ ret.kind = "return"
       /\ Written
       /\ call'.op = "load_bfedat")
        => /\ ret'.kind = "return"
           /\ SameTable(ret'.value, parsed_data) ]_vars

\* C10: a conversion of an existing file leaves that file as it was, writes
\* to a path other than the input path, and changes no file but the one at
\* the derived path.
C10_InputUntouched ==
  [][ (call'.op = "mmpbsa_to_csv" /\ call'.input_filepath \in DOMAIN fs)
        => LET p == call'.input_filepath
           IN  /\ p \in DOMAIN fs' /\ fs'[p] = fs[p]
               /\ OutputPath(p) # p
               /\ \A q \in DOMAIN fs' \ {OutputPath(p)} :
                    q \in DOMAIN fs /\ fs'[q] = fs[q] ]_vars

-----------------------------------------------------------------------------
(* Properties of the loader and the aggregator.                            *)

PresetNames == {"load_rmsd", "load_rg", "load_sasa", "load_hbond"}

Aggregated == call.op \in PresetNames \cup {"load_ana"}

SelectedLabels(colkeys) ==
  IF colkeys.kind = "label" THEN <<colkeys.label>> ELSE colkeys.labels

\* Every bundle holds the key and, under it, every selected column.
WellFormed(key, colkeys) ==
  \A i \in 1..Len(dfpickels) :
    /\ key \in DOMAIN dfpickels[i]
    /\ \A j \in 1..Len(SelectedLabels(colkeys)) :
         \E c \in 1..Len(dfpickels[i][key].columns) :
           dfpickels[i][key].columns[c].label = SelectedLabels(colkeys)[j]

\* C8, as stated, over one bundle or more: the table has (bundles) x
\* (selected columns) columns, and a preset called with its default selection
\* has 2 columns per bundle.
C8_ColumnCount ==
  (Aggregated /\ dfpickels # <<>> /\ WellFormed(call.key, call.colkeys))
    => /\ ret.kind = "return"
       /\ Len(ret.value.columns) =
            Len(dfpickels) * (IF call.op \in PresetNames THEN 2
                              ELSE Len(SelectedLabels(call.colkeys)))

\* C8, amended: over one or more well-formed bundles the table has
\* (bundles) x (selected labels) columns, column j of bundle i at place
\* (i - 1) x (selected labels) + j; a preset's default selection is the single
\* label 2, one column per bundle; over no bundle the call raises ValueError.
C8_ColumnsInBundleOrder ==
  (Aggregated /\ WellFormed(call.key, call.colkeys))
    => LET sel == SelectedLabels(call.colkeys)
           w   == Len(sel)
       IN  /\ call.op \in PresetNames => call.colkeys = Label(2)
           /\ dfpickels = <<>> => ret = Raises("ValueError")
           /\ dfpickels # <<>> =>
                /\ ret.kind = "return"
                /\ Len(ret.value.columns) = Len(dfpickels) * w
                /\ \A i \in 1..Len(dfpickels) : \A j \in 1..w :
                     /\ ret.value.columns[(i - 1) * w + j].label = sel[j]
                     /\ \E c \in 1..Len(dfpickels[i][call.key].columns) :
                          ret.value.columns[(i - 1) * w + j]
                            = dfpickels[i][call.key].columns[c]

\* Two columns of each of two bundles or more have been laid side by side.
C8_TwoByTwo ==
  /\ call.op = "load_ana"
  /\ call.colkeys.kind = "list"
  /\ Len(call.colkeys.labels) = 2
  /\ Len(dfpickels) >= 2
  /\ ret.kind = "return"
  /\ Len(ret.value.columns) = 2 * Len(dfpickels)

\* The path of the k-th row of the configuration table holds a bundle.
Loadable(k) ==
  LET p == Fullpath(dfconf["PATH"][k], call.filename)
  IN  p \in DOMAIN fs /\ fs[p].kind = "file" /\ fs[p].fmt = "pickle"

\* C9: load_pickles opens the paths in table order; at the first path that
\* fails it stops, having opened nothing after it, and raises that path's
\* error instead of returning a list; when no path fails it returns one
\* bundle per path, in order.
C9_FailFastInOrder ==
  call.op = "load_pickles" =>
    LET paths  == dfconf["PATH"]
        failed == {k \in 1..Len(paths) : ~Loadable(k)}
        last   == IF failed = {} THEN Len(paths) ELSE Min(failed)
    IN  /\ opened = [k \in 1..last |->
                       [path |-> Fullpath(paths[k], call.filename), mode |-> "rb"]]
        /\ failed # {} =>
             ret = Raises(IF Fullpath(paths[last], call.filename) \in DOMAIN fs
                            THEN "UnpicklingError" ELSE "FileNotFoundError")
        /\ failed # {} => dfpickels = <<>>
        /\ failed = {} =>
             /\ ret.kind = "return"
             /\ Len(ret.value) = Len(paths)
             /\ \A k \in 1..Len(paths) :
                  ret.value[k] = fs[Fullpath(paths[k], call.filename)].data
             /\ dfpickels = ret.value

\* A load failed at a path that is not the last one, after a path that loaded.
C9_FailedBeforeLast ==
  /\ call.op = "load_pickles"
  /\ ret.kind = "raise"
  /\ Len(opened) >= 2
  /\ Len(opened) < Len(dfconf["PATH"])

====
